---- MODULE Spec2Model ----
(***************************************************************************)
(* The instance lifecycle manager of openlight (pkg/runner/runner.go):     *)
(* the filesystem store of instance directories, the operating system's    *)
(* process table, and the CLI invocations that run Start, Stop, CleanAll   *)
(* ... against them, one system call at a time.                            *)
(*                                                                         *)
(* Left out of a record: the Time field (no operation reads it back).      *)
(* os.RemoveAll and os.Stat are modelled as succeeding on the runner's own *)
(* directory tree; every other file and process call can fail.             *)
(***************************************************************************)
EXTENDS Naturals, Integers, Sequences, FiniteSets, TLC

\* ------------------------------------------------------------- bounds
\* The random ID bytes range over 0..MaxIdByte (the code draws 8 bytes).
MaxIdByte == 1
\* The operating system hands out the process ids 1..MaxPid.
MaxPid == 2
\* Restart is called on the records of at most MaxArgs - 1 arguments.
MaxArgs == 3

\* ------------------------------------------------------------- constants
StatusRunning == 0
StatusExited == 1
StatusError == 2

InstanceInfoFileName == "info.json"
InstanceLogStderrName == "stderr.log"
InstanceLogStdoutName == "stdout.log"

SignalInt == 2
SignalQuit == 3
SignalKill == 9

\* A nil error, and the errors the calls of the program produce.
Nil == "nil"
ErrFinished == "os: process already finished"
ErrNotPermitted == "operation not permitted"
ErrNoHandle == "os: cannot find process"
ErrRequireCommand == "Require command"
ErrNotFound == "Application instance not found"
ErrReadInfo == "Failed to read Info file"
ErrBrokenInfo == "Info file is broken"
ErrMkdir == "mkdir failed"
ErrCreate == "create failed"
ErrLaunch == "exec failed"
ErrRelease == "release failed"
ErrWrite == "write failed"

\* ------------------------------------------------------------- data
HexDigits == <<"0", "1", "2", "3", "4", "5", "6", "7",
               "8", "9", "a", "b", "c", "d", "e", "f">>

\* hex.EncodeToString of one random byte.
HexEncode(b) == HexDigits[(b \div 16) + 1] \o HexDigits[(b % 16) + 1]

IdBytes == 0..MaxIdByte
IDs == {HexEncode(b) : b \in IdBytes}
NoID == ""

Pids == 1..MaxPid
NoPid == 0

\* A string that is not valid UTF-8, and what encoding/json writes for it:
\* json.Marshal replaces every invalid byte by the replacement rune U+FFFD.
InvalidUTF8 == {"\\xff"}
CoerceUTF8(s) == IF s \in InvalidUTF8 THEN "\\ufffd" ELSE s

CoerceArgs(args) == [i \in DOMAIN args |-> CoerceUTF8(args[i])]

NoOptions ==
    [Args |-> <<>>, WorkDir |-> "", Singleton |-> FALSE,
     Background |-> FALSE, IgnoreSpecArgs |-> FALSE]

NullInstance ==
    [ID |-> NoID, Name |-> "", Command |-> "", Options |-> NoOptions, Pid |-> NoPid]

\* json.Marshal(&instance): the bytes written to info.json.
Marshal(inst) ==
    [kind |-> "json",
     val |-> [ID |-> CoerceUTF8(inst.ID),
              Name |-> CoerceUTF8(inst.Name),
              Command |-> CoerceUTF8(inst.Command),
              Options |-> [Args |-> CoerceArgs(inst.Options.Args),
                           WorkDir |-> CoerceUTF8(inst.Options.WorkDir),
                           Singleton |-> inst.Options.Singleton,
                           Background |-> inst.Options.Background,
                           IgnoreSpecArgs |-> inst.Options.IgnoreSpecArgs],
              Pid |-> inst.Pid]]

\* Contents of info.json: no file, a file opened and truncated but not yet
\* written (no JSON document), or a document.
NoFile == [kind |-> "nofile"]
EmptyFile == [kind |-> "empty"]

\* json.Unmarshal(data, &instance): fails on anything but a document.
UnmarshalOK(data) == data.kind = "json"
Unmarshal(data) == data.val

\* An instance directory <root>/<id>: whether it exists, its info.json and
\* the log files in it.
NoDir == [exists |-> FALSE, info |-> NoFile, logs |-> {}]
EmptyDir == [exists |-> TRUE, info |-> NoFile, logs |-> {}]

\* A runner spec file: absent (os.Stat fails), present but not loadable, or
\* loaded, with its table of applications: key -> RunnerAppSpec.
MissingFile == [kind |-> "missing", Apps |-> <<>>]
BrokenFile == [kind |-> "broken", Apps |-> <<>>]
SpecFile(apps) == [kind |-> "spec", Apps |-> apps]

\* A load in which a name keeps the entry of the first file that defines it.
PutAllKeepsFirst(apps, specApps) ==
    [name \in DOMAIN apps \cup DOMAIN specApps |->
        IF name \in DOMAIN apps THEN apps[name] ELSE specApps[name]]

\* for name, appSpec := range spec.Apps { apps[name] = appSpec }
PutAll(apps, specApps) ==
    [name \in DOMAIN apps \cup DOMAIN specApps |->
        IF name \in DOMAIN specApps THEN specApps[name] ELSE apps[name]]

\* loadRunnerSpec over the files <<global, user, project>>, read in that order:
\* the table it assigns to AppRunner.Apps.
loadRunnerSpec(filenames) ==
    LET apps[i \in 0..Len(filenames)] ==
            IF i = 0
            THEN <<>>
            ELSE IF filenames[i].kind = "spec"
            THEN PutAll(apps[i - 1], filenames[i].Apps)
            ELSE apps[i - 1]
    IN  apps[Len(filenames)]

\* The spec files of the workspace the runner is constructed in: the global one
\* defines svc, tool, job and web, there is no user one, the project one defines
\* svc. The applications tool and web are filed under their own Name.
WorkspaceFiles ==
    << SpecFile([k \in {"svc", "tool", "job", "web"} |->
                   CASE k = "svc" ->
                          [Name |-> "service", Command |-> "", Workdir |-> "/b",
                           Singleton |-> FALSE, Args |-> <<>>]
                     [] k = "tool" ->
                          [Name |-> "tool", Command |-> "", Workdir |-> "",
                           Singleton |-> TRUE, Args |-> <<>>]
                     [] k = "job" ->
                          [Name |-> "batch", Command |-> "work", Workdir |-> "",
                           Singleton |-> FALSE, Args |-> <<>>]
                     [] k = "web" ->
                          [Name |-> "web", Command |-> "httpd", Workdir |-> "",
                           Singleton |-> FALSE, Args |-> <<"-q">>]]),
       MissingFile,
       SpecFile([k \in {"svc"} |->
                   [Name |-> "service", Command |-> "serve", Workdir |-> "/srv",
                    Singleton |-> TRUE, Args |-> <<"-p">>]]) >>

\* The spec table (AppRunner.Apps) after construction.
Apps == loadRunnerSpec(WorkspaceFiles)

\* The Start calls the CLI issues: name, command, options.
StartRequests ==
    { [name |-> "echo", command |-> "sleep",
       options |-> [NoOptions EXCEPT !.Singleton = TRUE, !.Background = TRUE]],
      [name |-> "echo", command |-> "sleep",
       options |-> [NoOptions EXCEPT !.Args = <<"\\xff">>]],
      [name |-> "echo", command |-> "",
       options |-> [NoOptions EXCEPT !.Singleton = TRUE]],
      [name |-> "svc", command |-> "",
       options |-> [NoOptions EXCEPT !.Args = <<"-v">>, !.Background = TRUE]],
      [name |-> "tool", command |-> "", options |-> NoOptions] }

Invocations == {1, 2}

VARIABLES
    dirs,    \* the store: ID -> instance directory under the root path
    procs,   \* the process table: pid -> "none" | "alive" | "foreign" | "nohandle"
    sent,    \* the signals delivered by the last step: sequence of <<pid, signal>>
    pc,      \* invocation -> its position
    loc,     \* invocation -> its local variables
    ret,     \* invocation -> what its operation returned
    launched \* the command started by the last step (exec.Cmd: Path, Args, Dir)

vars == <<dirs, procs, sent, pc, loc, ret, launched>>

\* No command was started.
NoCmd == [Path |-> "", Args |-> <<>>, Dir |-> "", Pid |-> NoPid]

\* ------------------------------------------------------------- process table
\* os.FindProcess(pid): whether a handle is acquired.
FindProcess(pid) == IF procs[pid] = "nohandle" THEN ErrNoHandle ELSE Nil

\* proc.Signal(sig): the error of the delivery. A process the caller owns takes
\* the signal; one of another owner refuses it; a pid with no process behind it
\* reports that the process has finished.
Signal(pid, sig) ==
    CASE procs[pid] = "alive" -> Nil
      [] procs[pid] = "foreign" -> ErrNotPermitted
      [] OTHER -> ErrFinished

\* ------------------------------------------------------------- AppInstance
\* A status that takes a finished process for an error.
GetStatusFinishedIsError(instance) ==
    IF FindProcess(instance.Pid) # Nil
    THEN [status |-> StatusExited, err |-> Nil]
    ELSE LET err == Signal(instance.Pid, 0)
         IN  IF err # Nil
             THEN [status |-> StatusError, err |-> err]
             ELSE [status |-> StatusRunning, err |-> Nil]

GetStatus(instance) ==
    IF FindProcess(instance.Pid) # Nil
    THEN [status |-> StatusExited, err |-> Nil]
    ELSE LET err == Signal(instance.Pid, 0)
         IN  IF err # Nil
             THEN IF err = ErrFinished
                  THEN [status |-> StatusExited, err |-> Nil]
                  ELSE [status |-> StatusError, err |-> err]
             ELSE [status |-> StatusRunning, err |-> Nil]

\* A Stop that reports a finished process as an error.
InstanceStopStrict(instance) ==
    IF FindProcess(instance.Pid) # Nil
    THEN [err |-> Nil, sent |-> <<>>]
    ELSE LET err == Signal(instance.Pid, SignalInt)
         IN  IF err # Nil
             THEN [err |-> err, sent |-> <<>>]
             ELSE [err |-> Nil, sent |-> <<<<instance.Pid, SignalInt>>>>]

\* Stop, Quit and Kill return the error and the signals they delivered.
InstanceStop(instance) ==
    IF FindProcess(instance.Pid) # Nil
    THEN [err |-> Nil, sent |-> <<>>]
    ELSE LET err == Signal(instance.Pid, SignalInt)
         IN  IF err # Nil
             THEN IF err = ErrFinished
                  THEN [err |-> Nil, sent |-> <<>>]
                  ELSE [err |-> err, sent |-> <<>>]
             ELSE [err |-> Nil, sent |-> <<<<instance.Pid, SignalInt>>>>]

InstanceQuit(instance) ==
    IF FindProcess(instance.Pid) # Nil
    THEN [err |-> Nil, sent |-> <<>>]
    ELSE LET err == Signal(instance.Pid, SignalQuit)
         IN  IF err # Nil
             THEN IF err = ErrFinished
                  THEN [err |-> Nil, sent |-> <<>>]
                  ELSE [err |-> err, sent |-> <<>>]
             ELSE [err |-> Nil, sent |-> <<<<instance.Pid, SignalQuit>>>>]

\* A Kill that sends the interrupt signal.
InstanceKillInterrupts(instance) ==
    IF FindProcess(instance.Pid) # Nil
    THEN [err |-> Nil, sent |-> <<>>]
    ELSE LET err == Signal(instance.Pid, SignalInt)
         IN  IF err # Nil
             THEN IF err = ErrFinished
                  THEN [err |-> Nil, sent |-> <<>>]
                  ELSE [err |-> err, sent |-> <<>>]
             ELSE [err |-> Nil, sent |-> <<<<instance.Pid, SignalInt>>>>]

InstanceKill(instance) ==
    IF FindProcess(instance.Pid) # Nil
    THEN [err |-> Nil, sent |-> <<>>]
    ELSE LET err == Signal(instance.Pid, SignalKill)
         IN  IF err # Nil
             THEN IF err = ErrFinished
                  THEN [err |-> Nil, sent |-> <<>>]
                  ELSE [err |-> err, sent |-> <<>>]
             ELSE [err |-> Nil, sent |-> <<<<instance.Pid, SignalKill>>>>]

\* ------------------------------------------------------------- the store
\* ioutil.ReadDir lists the entries in name order; a directory that does not pass
\* the ID filter is skipped before its info file is read; the first info file that
\* is missing or broken ends the enumeration with an error and no instances.
\* An enumeration that passes over the directories whose record cannot be read.
loadInstancesSkipsBroken(idFilterFunc, instanceFilterFunc) ==
    LET scan[b \in 0..(MaxIdByte + 1)] ==
            IF b > MaxIdByte
            THEN <<>>
            ELSE LET name == HexEncode(b)
                     data == dirs[name].info
                 IN  IF /\ dirs[name].exists /\ name \in idFilterFunc
                        /\ UnmarshalOK(data)
                        /\ Unmarshal(data) \in instanceFilterFunc
                     THEN <<Unmarshal(data)>> \o scan[b + 1]
                     ELSE scan[b + 1]
    IN  [err |-> Nil, instances |-> scan[0]]

\* A filter is the set of the values it accepts; a nil filter accepts them all.
Decodable ==
    {Unmarshal(dirs[i].info) :
        i \in {j \in IDs : dirs[j].exists /\ dirs[j].info # NoFile
                                          /\ UnmarshalOK(dirs[j].info)}}

loadInstances(idFilterFunc, instanceFilterFunc) ==
    LET scan[b \in 0..(MaxIdByte + 1)] ==
            IF b > MaxIdByte
            THEN [err |-> Nil, instances |-> <<>>]
            ELSE LET name == HexEncode(b)
                     data == dirs[name].info
                 IN  IF ~dirs[name].exists \/ name \notin idFilterFunc
                     THEN scan[b + 1]
                     ELSE IF data = NoFile
                     THEN [err |-> ErrReadInfo, instances |-> <<>>]
                     ELSE IF ~UnmarshalOK(data)
                     THEN [err |-> ErrBrokenInfo, instances |-> <<>>]
                     ELSE LET rest == scan[b + 1]
                          IN  IF rest.err # Nil
                              THEN rest
                              ELSE IF Unmarshal(data) \in instanceFilterFunc
                              THEN [rest EXCEPT !.instances = <<Unmarshal(data)>> \o @]
                              ELSE rest
    IN  scan[0]

\* A GetInstance that reads every record and keeps the one with the ID.
GetInstanceByRecord(id) ==
    LET r == loadInstances(IDs, {instance \in Decodable : instance.ID = id})
    IN  IF r.err # Nil
        THEN [err |-> r.err, instance |-> NullInstance]
        ELSE IF Len(r.instances) = 0
        THEN [err |-> Nil, instance |-> NullInstance]
        ELSE [err |-> Nil, instance |-> r.instances[1]]

GetInstance(id) ==
    LET r == loadInstances({_id \in IDs : _id = id}, Decodable)
    IN  IF r.err # Nil
        THEN [err |-> r.err, instance |-> NullInstance]
        ELSE IF Len(r.instances) = 0
        THEN [err |-> Nil, instance |-> NullInstance]
        ELSE [err |-> Nil, instance |-> r.instances[1]]

ResolveName(name) == IF name \in DOMAIN Apps THEN Apps[name].Name ELSE name

\* A lookup under a lock on the name: it fails while a Start of the name is
\* under way in another invocation.
GetInstancesByNameLocked(name) ==
    IF \E p \in Invocations :
          loc[p].op = "Start" /\ loc[p].name = ResolveName(name)
    THEN [err |-> "locked", instances |-> <<>>]
    ELSE loadInstances(IDs, {instance \in Decodable :
                                instance.Name = ResolveName(name)})

GetInstancesByName(name) ==
    loadInstances(IDs, {instance \in Decodable :
                            instance.Name = ResolveName(name)})

GetRunningInstancesByName(name) ==
    loadInstances(IDs, {instance \in Decodable :
                            /\ instance.Name = ResolveName(name)
                            /\ GetStatus(instance).status = StatusRunning})

\* A removal that takes the whole root with it.
RemoveAllRoot(d, id) == [i \in IDs |-> NoDir]

\* os.RemoveAll(filepath.Join(rootPath, id)) on the store d.
RemoveAll(d, id) == IF id \in IDs THEN [d EXCEPT ![id] = NoDir] ELSE d

\* ------------------------------------------------------------- invocations
\* The arguments of a Start call, and the Restart a Start is called from; stopped
\* holds the pids the singleton loop of a Start has delivered its signal to.
NoCall == [name |-> "", command |-> "", options |-> NoOptions]
NoRestart == [on |-> FALSE, id |-> NoID, clean |-> FALSE, instance |-> NullInstance]

IdleLoc ==
    [op |-> "none", name |-> "", command |-> "", options |-> NoOptions,
     instances |-> <<>>, id |-> NoID, pid |-> NoPid, clean |-> FALSE,
     call |-> NoCall, restart |-> NoRestart, stopped |-> {}]

NoRet ==
    [op |-> "none", err |-> Nil, instance |-> NullInstance, status |-> -1,
     id |-> NoID, clean |-> FALSE, call |-> NoCall, restart |-> NoRestart,
     instances |-> <<>>, onlyRunning |-> FALSE, filenames |-> <<>>, apps |-> <<>>,
     stopped |-> {}]

Init ==
    /\ dirs = [i \in IDs |-> NoDir]
    /\ procs = [q \in Pids |-> "none"]
    /\ sent = <<>>
    /\ launched = NoCmd
    /\ pc = [p \in Invocations |-> "idle"]
    /\ loc = [p \in Invocations |-> IdleLoc]
    /\ ret = [p \in Invocations |-> NoRet]

\* The operation of invocation p returns r.
Return(p, r) ==
    /\ pc' = [pc EXCEPT ![p] = "done"]
    /\ loc' = [loc EXCEPT ![p] = IdleLoc]
    /\ ret' = [ret EXCEPT ![p] = r]

Goto(p, label, l) ==
    /\ pc' = [pc EXCEPT ![p] = label]
    /\ loc' = [loc EXCEPT ![p] = l]
    /\ UNCHANGED ret

\* ------------------------------------------------------------- AppRunner.Start
\* A resolution in which the command of the spec takes the place of the caller's.
ResolveStartSpecWins(name, command, options) ==
    IF name \in DOMAIN Apps
    THEN [name |-> Apps[name].Name, command |-> Apps[name].Command,
          options |-> [options EXCEPT !.Args = Apps[name].Args \o @,
                                      !.WorkDir = Apps[name].Workdir,
                                      !.Singleton = Apps[name].Singleton]]
    ELSE [name |-> name, command |-> command, options |-> options]

\* The name, command and options Start works with after looking the name up in
\* the spec table.
ResolveStart(name, command, options) ==
    IF name \in DOMAIN Apps
    THEN LET appSpec == Apps[name]
         IN  [name |-> appSpec.Name,
              command |-> IF command = "" THEN appSpec.Command ELSE command,
              options |->
                  [Args |-> IF ~options.IgnoreSpecArgs /\ Len(appSpec.Args) > 0
                            THEN appSpec.Args \o options.Args
                            ELSE options.Args,
                   WorkDir |-> IF options.WorkDir = "" THEN appSpec.Workdir
                               ELSE options.WorkDir,
                   Singleton |-> IF options.Singleton = FALSE /\ appSpec.Singleton
                                 THEN appSpec.Singleton
                                 ELSE options.Singleton,
                   Background |-> options.Background,
                   IgnoreSpecArgs |-> options.IgnoreSpecArgs]]
    ELSE [name |-> name, command |-> command, options |-> options]

\* What a Start with the local variables l returns.
StartReturn(l, instance, err) ==
    [NoRet EXCEPT !.op = "Start", !.instance = instance, !.err = err,
                  !.call = l.call, !.restart = l.restart, !.stopped = l.stopped]

StartFailed(l, err) == StartReturn(l, NullInstance, err)

\* Lines 217 and 221: the errors of the singleton loop wrap their cause.
ErrGetStatus(err) == "Failed to get the status of process, error: " \o err
ErrStopProcess(err) == "Failed to stop process, error: " \o err

\* Where Start goes when the instances still to check are rest.
AfterCheck(rest) == IF rest = <<>> THEN "newid" ELSE "check"

\* Lines 185-214: resolve, require a command, enumerate the instances of the name.
\* A Start that does not require a command.
StartEnterAnyCommand(p, name, command, options, restart) ==
    LET r == ResolveStart(name, command, options)
        l == [IdleLoc EXCEPT !.op = "Start", !.name = r.name,
                             !.command = r.command, !.options = r.options,
                             !.call = [name |-> name, command |-> command,
                                       options |-> options],
                             !.restart = restart]
    IN  IF r.options.Singleton
        THEN LET found == GetInstancesByName(r.name)
             IN  IF found.err # Nil
                 THEN Return(p, StartFailed(l, found.err))
                 ELSE Goto(p, AfterCheck(found.instances),
                           [l EXCEPT !.instances = found.instances])
        ELSE Goto(p, "newid", l)

StartEnter(p, name, command, options, restart) ==
    LET r == ResolveStart(name, command, options)
        l == [IdleLoc EXCEPT !.op = "Start", !.name = r.name,
                             !.command = r.command, !.options = r.options,
                             !.call = [name |-> name, command |-> command,
                                       options |-> options],
                             !.restart = restart]
    IN  IF r.command = ""
        THEN Return(p, StartFailed(l, ErrRequireCommand))
        ELSE IF r.options.Singleton
        THEN LET found == GetInstancesByName(r.name)
             IN  IF found.err # Nil
                 THEN Return(p, StartFailed(l, found.err))
                 ELSE Goto(p, AfterCheck(found.instances),
                           [l EXCEPT !.instances = found.instances])
        ELSE Goto(p, "newid", l)

\* A call of Start by the CLI.
StartBegin(p, name, command, options) ==
    /\ pc[p] = "idle"
    /\ StartEnter(p, name, command, options, NoRestart)
    /\ sent' = <<>>
    /\ launched' = NoCmd
    /\ UNCHANGED <<dirs, procs>>

\* A singleton loop that passes over the instances it finds running.
StartCheckSkipsRunning(p) ==
    /\ pc[p] = "check"
    /\ LET instance == Head(loc[p].instances)
           st == GetStatus(instance)
       IN  IF st.err # Nil
           THEN Return(p, StartFailed(loc[p], ErrGetStatus(st.err)))
           ELSE Goto(p, AfterCheck(Tail(loc[p].instances)),
                     [loc[p] EXCEPT !.instances = Tail(@)])
    /\ sent' = <<>>
    /\ launched' = NoCmd
    /\ UNCHANGED <<dirs, procs>>

\* Lines 216-219: the status of the next instance of the name.
StartCheck(p) ==
    /\ pc[p] = "check"
    /\ LET instance == Head(loc[p].instances)
           st == GetStatus(instance)
       IN  IF st.err # Nil
           THEN Return(p, StartFailed(loc[p], ErrGetStatus(st.err)))
           ELSE IF st.status = StatusRunning
           THEN Goto(p, "stopold", loc[p])
           ELSE Goto(p, AfterCheck(Tail(loc[p].instances)),
                     [loc[p] EXCEPT !.instances = Tail(@)])
    /\ sent' = <<>>
    /\ launched' = NoCmd
    /\ UNCHANGED <<dirs, procs>>

\* The pids the call r, of Stop, Quit or Kill, delivered its signal to.
SignalledBy(r) == {r.sent[k][1] : k \in DOMAIN r.sent}

\* A singleton loop that goes on when the stop signal cannot be delivered.
StartStopOldIgnoresError(p) ==
    /\ pc[p] = "stopold"
    /\ LET r == InstanceStop(Head(loc[p].instances))
       IN  /\ Goto(p, AfterCheck(Tail(loc[p].instances)),
                   [loc[p] EXCEPT !.instances = Tail(@),
                                  !.stopped = @ \cup SignalledBy(r)])
           /\ sent' = r.sent
    /\ launched' = NoCmd
    /\ UNCHANGED <<dirs, procs>>

\* Lines 220-223: stop the instance found running.
StartStopOld(p) ==
    /\ pc[p] = "stopold"
    /\ LET r == InstanceStop(Head(loc[p].instances))
       IN  /\ IF r.err # Nil
              THEN Return(p, StartFailed(loc[p], ErrStopProcess(r.err)))
              ELSE Goto(p, AfterCheck(Tail(loc[p].instances)),
                        [loc[p] EXCEPT !.instances = Tail(@),
                                       !.stopped = @ \cup SignalledBy(r)])
           /\ sent' = r.sent
           /\ launched' = NoCmd
    /\ UNCHANGED <<dirs, procs>>

\* An ID creation that does not look for a directory of that name.
getNextRandomIDNoCheck(p, b) == Goto(p, "mkdir", [loc[p] EXCEPT !.id = HexEncode(b)])

\* getNextRandomID, one turn of its loop: draw the bytes b, encode them, and
\* return the ID unless a directory of that name exists.
getNextRandomID(p, b) ==
    LET idStr == HexEncode(b)
    IN  IF ~dirs[idStr].exists
        THEN Goto(p, "mkdir", [loc[p] EXCEPT !.id = idStr])
        ELSE UNCHANGED <<pc, loc, ret>>

ErrRand == "rand.Read failed"

\* Lines 228-231.
StartNewID(p) ==
    /\ pc[p] = "newid"
    /\ \/ \E b \in IdBytes : getNextRandomID(p, b)
       \/ Return(p, StartFailed(loc[p], ErrRand))
    /\ sent' = <<>>
    /\ launched' = NoCmd
    /\ UNCHANGED <<dirs, procs>>

\* Lines 232-235: os.MkdirAll succeeds on a directory that exists already.
StartMkdir(p) ==
    /\ pc[p] = "mkdir"
    /\ \/ /\ dirs' = [dirs EXCEPT ![loc[p].id] =
                         IF @.exists THEN @ ELSE EmptyDir]
          /\ Goto(p, "stderr", loc[p])
       \/ /\ Return(p, StartFailed(loc[p], ErrMkdir))
          /\ UNCHANGED dirs
    /\ sent' = <<>>
    /\ launched' = NoCmd
    /\ UNCHANGED procs

\* A Start that fails without removing its directory.
RollbackKeeps(p, err) ==
    /\ dirs' = dirs
    /\ Return(p, StartFailed(loc[p], err))

\* Lines 236-242: the deferred function of a Start that does not succeed.
Rollback(p, err) ==
    /\ dirs' = RemoveAll(dirs, loc[p].id)
    /\ Return(p, StartFailed(loc[p], err))

\* os.Create of a log file in the instance directory.
CreateLog(p, fileName, next) ==
    \/ /\ dirs[loc[p].id].exists
       /\ dirs' = [dirs EXCEPT ![loc[p].id].logs = @ \cup {fileName}]
       /\ Goto(p, next, loc[p])
    \/ Rollback(p, ErrCreate)

\* Lines 245-248.
StartCreateStderr(p) ==
    /\ pc[p] = "stderr"
    /\ CreateLog(p, InstanceLogStderrName, "stdout")
    /\ sent' = <<>>
    /\ launched' = NoCmd
    /\ UNCHANGED procs

\* Lines 249-252.
StartCreateStdout(p) ==
    /\ pc[p] = "stdout"
    /\ CreateLog(p, InstanceLogStdoutName, "launch")
    /\ sent' = <<>>
    /\ launched' = NoCmd
    /\ UNCHANGED procs

\* Lines 263-283: cmd.Start launches the child under a pid no process holds.
StartLaunch(p) ==
    /\ pc[p] = "launch"
    /\ \/ \E pid \in Pids :
             /\ procs[pid] \in {"none", "nohandle"}
             /\ procs' = [procs EXCEPT ![pid] = "alive"]
             /\ launched' = [Path |-> loc[p].command, Args |-> loc[p].options.Args,
                             Dir |-> loc[p].options.WorkDir, Pid |-> pid]
             /\ Goto(p, IF loc[p].options.Background THEN "release" ELSE "open",
                     [loc[p] EXCEPT !.pid = pid])
             /\ UNCHANGED dirs
       \/ /\ Rollback(p, ErrLaunch)
          /\ launched' = NoCmd
          /\ UNCHANGED procs
    /\ sent' = <<>>

\* Lines 285-289: a background child is released.
StartRelease(p) ==
    /\ pc[p] = "release"
    /\ \/ /\ Goto(p, "open", loc[p])
          /\ UNCHANGED dirs
       \/ Rollback(p, ErrRelease)
    /\ sent' = <<>>
    /\ launched' = NoCmd
    /\ UNCHANGED procs

\* Lines 291-298: the record of the instance.
NewInstance(l) ==
    [ID |-> l.id, Name |-> l.name, Command |-> l.command,
     Options |-> l.options, Pid |-> l.pid]

\* Line 303, ioutil.WriteFile, first half: info.json is created or truncated.
StartOpenInfo(p) ==
    /\ pc[p] = "open"
    /\ \/ /\ dirs[loc[p].id].exists
          /\ dirs' = [dirs EXCEPT ![loc[p].id].info = EmptyFile]
          /\ Goto(p, "write", loc[p])
       \/ Rollback(p, ErrWrite)
    /\ sent' = <<>>
    /\ launched' = NoCmd
    /\ UNCHANGED procs

\* Lines 299-308: the marshalled record is written, and Start succeeds. The
\* bytes reach the store if info.json is still there.
StartWriteInfo(p) ==
    /\ pc[p] = "write"
    /\ \/ /\ dirs' = [dirs EXCEPT ![loc[p].id].info =
                         IF @ = NoFile THEN @ ELSE Marshal(NewInstance(loc[p]))]
          /\ Return(p, StartReturn(loc[p], NewInstance(loc[p]), Nil))
       \/ Rollback(p, ErrWrite)
    /\ sent' = <<>>
    /\ launched' = NoCmd
    /\ UNCHANGED procs

\* ------------------------------------------------------------- AppRunner.Stop
StopReturn(id, clean, instance, err) ==
    [NoRet EXCEPT !.op = "Stop", !.id = id, !.clean = clean,
                  !.instance = instance, !.err = err]

\* Lines 312-318: load the instance.
StopBegin(p, id, clean) ==
    /\ pc[p] = "idle"
    /\ LET r == GetInstance(id)
       IN  IF r.err # Nil
           THEN Return(p, StopReturn(id, clean, NullInstance, r.err))
           ELSE IF r.instance = NullInstance
           THEN Return(p, StopReturn(id, clean, NullInstance, ErrNotFound))
           ELSE Goto(p, "stopsignal",
                     [IdleLoc EXCEPT !.op = "Stop", !.id = id, !.clean = clean,
                                     !.instances = <<r.instance>>])
    /\ sent' = <<>>
    /\ launched' = NoCmd
    /\ UNCHANGED <<dirs, procs>>

\* Lines 319-321 and 327-328: signal the instance.
StopSignal(p) ==
    /\ pc[p] = "stopsignal"
    /\ LET instance == Head(loc[p].instances)
           r == InstanceStop(instance)
       IN  /\ IF r.err # Nil
              THEN Return(p, StopReturn(loc[p].id, loc[p].clean, instance, r.err))
              ELSE IF loc[p].clean
              THEN Goto(p, "stopclean", loc[p])
              ELSE Return(p, StopReturn(loc[p].id, loc[p].clean, instance, Nil))
           /\ sent' = r.sent
           /\ launched' = NoCmd
    /\ UNCHANGED <<dirs, procs>>

\* A Clean that removes nothing.
CleanNothing(d, id) == d

\* A Clean that empties the files of the directory and leaves it in place.
CleanTruncates(d, id) == [d EXCEPT ![id].info = EmptyFile, ![id].logs = {}]

\* AppRunner.Clean, lines 350-352, on the store d.
Clean(d, id) == RemoveAll(d, id)

\* Lines 322-328: remove the directory of the instance.
StopClean(p) ==
    /\ pc[p] = "stopclean"
    /\ LET instance == Head(loc[p].instances)
       IN  /\ dirs' = Clean(dirs, instance.ID)
           /\ Return(p, StopReturn(loc[p].id, loc[p].clean, instance, Nil))
    /\ sent' = <<>>
    /\ launched' = NoCmd
    /\ UNCHANGED procs

\* The error of a whole Stop(id, clean), lines 311-329, run on the present state.
StopError(id) ==
    LET r == GetInstance(id)
    IN  IF r.err # Nil
        THEN r.err
        ELSE IF r.instance = NullInstance
        THEN ErrNotFound
        ELSE InstanceStop(r.instance).err

\* ------------------------------------------------------------- AppRunner.CleanAll
List(onlyRunning) ==
    IF ~onlyRunning
    THEN loadInstances(IDs, Decodable)
    ELSE loadInstances(IDs, {instance \in Decodable :
                            GetStatus(instance).status = StatusRunning})

\* A removal that takes the record and leaves the rest of the directory.
RemoveRecordOnly(d, id) == [d EXCEPT ![id].info = NoFile]

\* AppRunner.RemoveInstance, lines 151-153, on the store d.
RemoveInstance(d, id) == RemoveAll(d, id)

CleanAllReturn(err) == [NoRet EXCEPT !.op = "CleanAll", !.err = err]

\* Lines 121-124: list all instances.
CleanAllBegin(p) ==
    /\ pc[p] = "idle"
    /\ LET r == List(FALSE)
       IN  IF r.err # Nil
           THEN Return(p, CleanAllReturn(r.err))
           ELSE IF r.instances = <<>>
           THEN Return(p, CleanAllReturn(Nil))
           ELSE Goto(p, "cleanall",
                     [IdleLoc EXCEPT !.op = "CleanAll", !.instances = r.instances])
    /\ sent' = <<>>
    /\ launched' = NoCmd
    /\ UNCHANGED <<dirs, procs>>

\* A turn of the loop that removes every instance that is not running.
CleanAllStepNotRunning(p) ==
    /\ pc[p] = "cleanall"
    /\ LET instance == Head(loc[p].instances)
           st == GetStatus(instance)
       IN  /\ dirs' = IF st.status # StatusRunning
                      THEN RemoveAll(dirs, instance.ID)
                      ELSE dirs
           /\ IF Tail(loc[p].instances) = <<>>
              THEN Return(p, [NoRet EXCEPT !.op = "CleanAll"])
              ELSE Goto(p, "cleanall", [loc[p] EXCEPT !.instances = Tail(@)])
    /\ sent' = <<>>
    /\ launched' = NoCmd
    /\ UNCHANGED procs

\* Lines 125-135: one turn of the loop, probe the instance and remove it if it
\* has exited.
CleanAllStep(p) ==
    /\ pc[p] = "cleanall"
    /\ LET instance == Head(loc[p].instances)
           st == GetStatus(instance)
       IN  /\ dirs' = IF st.status = StatusExited
                      THEN RemoveInstance(dirs, instance.ID)
                      ELSE dirs
           /\ IF Tail(loc[p].instances) = <<>>
              THEN Return(p, CleanAllReturn(Nil))
              ELSE Goto(p, "cleanall", [loc[p] EXCEPT !.instances = Tail(@)])
    /\ sent' = <<>>
    /\ launched' = NoCmd
    /\ UNCHANGED procs

\* ------------------------------------------------------------- AppRunner.Restart
RestartReturn(l, err) ==
    [NoRet EXCEPT !.op = "Restart", !.err = err, !.restart = l.restart]

\* A Restart that takes an instance it does not find for restarted.
RestartBeginIgnoresMissing(p, id, clean) ==
    /\ pc[p] = "idle"
    /\ LET r == GetInstance(id)
           l == [IdleLoc EXCEPT !.op = "Restart",
                                !.restart = [on |-> TRUE, id |-> id, clean |-> clean,
                                             instance |-> r.instance]]
       IN  IF r.err # Nil
           THEN Return(p, RestartReturn(l, r.err))
           ELSE IF r.instance = NullInstance
           THEN Return(p, RestartReturn(l, Nil))
           ELSE Goto(p, "restartsignal", l)
    /\ sent' = <<>>
    /\ launched' = NoCmd
    /\ UNCHANGED <<dirs, procs>>

\* Lines 332-338: load the instance.
RestartBegin(p, id, clean) ==
    /\ pc[p] = "idle"
    /\ LET r == GetInstance(id)
           l == [IdleLoc EXCEPT !.op = "Restart",
                                !.restart = [on |-> TRUE, id |-> id, clean |-> clean,
                                             instance |-> r.instance]]
       IN  IF r.err # Nil
           THEN Return(p, RestartReturn(l, r.err))
           ELSE IF r.instance = NullInstance
           THEN Return(p, RestartReturn(l, ErrNotFound))
           ELSE Goto(p, "restartsignal", l)
    /\ sent' = <<>>
    /\ launched' = NoCmd
    /\ UNCHANGED <<dirs, procs>>

\* A Restart that cleans whatever it was asked.
AfterStopAlwaysClean(clean) == "restartclean"

\* Lines 342-347: where Restart goes after the signal.
AfterStop(clean) == IF clean THEN "restartclean" ELSE "restartstart"

\* Lines 339-341: signal the instance.
RestartSignal(p) ==
    /\ pc[p] = "restartsignal"
    /\ LET r == InstanceStop(loc[p].restart.instance)
       IN  /\ IF r.err # Nil
              THEN Return(p, RestartReturn(loc[p], r.err))
              ELSE Goto(p, AfterStop(loc[p].restart.clean), loc[p])
           /\ sent' = r.sent
    /\ launched' = NoCmd
    /\ UNCHANGED <<dirs, procs>>

\* Lines 342-346: remove the directory of the instance.
RestartClean(p) ==
    /\ pc[p] = "restartclean"
    /\ dirs' = Clean(dirs, loc[p].restart.instance.ID)
    /\ Goto(p, "restartstart", loc[p])
    /\ sent' = <<>>
    /\ launched' = NoCmd
    /\ UNCHANGED procs

\* Line 347: Start is called with the name, command and options of the record.
RestartStart(p) ==
    /\ pc[p] = "restartstart"
    /\ LET instance == loc[p].restart.instance
       IN  StartEnter(p, instance.Name, instance.Command, instance.Options,
                      loc[p].restart)
    /\ sent' = <<>>
    /\ launched' = NoCmd
    /\ UNCHANGED <<dirs, procs>>

\* ------------------------------------------------------------- removal and lookup calls
\* AppRunner.Clean(id), lines 350-352.
CallClean(p, id) ==
    /\ pc[p] = "idle"
    /\ dirs' = Clean(dirs, id)
    /\ Return(p, [NoRet EXCEPT !.op = "Clean", !.id = id])
    /\ sent' = <<>>
    /\ launched' = NoCmd
    /\ UNCHANGED procs

\* AppRunner.RemoveInstance(id), lines 151-153.
CallRemoveInstance(p, id) ==
    /\ pc[p] = "idle"
    /\ dirs' = RemoveInstance(dirs, id)
    /\ Return(p, [NoRet EXCEPT !.op = "RemoveInstance", !.id = id])
    /\ sent' = <<>>
    /\ launched' = NoCmd
    /\ UNCHANGED procs

\* What an enumeration r, of loadInstances, returns to the caller of op.
QueryReturn(op, r) ==
    [NoRet EXCEPT !.op = op, !.err = r.err, !.instances = r.instances]

CallList(p, onlyRunning) ==
    /\ pc[p] = "idle"
    /\ Return(p, [QueryReturn("List", List(onlyRunning))
                     EXCEPT !.onlyRunning = onlyRunning])
    /\ sent' = <<>>
    /\ launched' = NoCmd
    /\ UNCHANGED <<dirs, procs>>

CallGetInstance(p, id) ==
    /\ pc[p] = "idle"
    /\ LET r == GetInstance(id)
       IN  Return(p, [NoRet EXCEPT !.op = "GetInstance", !.id = id,
                                   !.err = r.err, !.instance = r.instance])
    /\ sent' = <<>>
    /\ launched' = NoCmd
    /\ UNCHANGED <<dirs, procs>>

CallGetInstancesByName(p, name) ==
    /\ pc[p] = "idle"
    /\ Return(p, [QueryReturn("GetInstancesByName", GetInstancesByName(name))
                     EXCEPT !.call.name = name])
    /\ sent' = <<>>
    /\ launched' = NoCmd
    /\ UNCHANGED <<dirs, procs>>

CallGetRunningInstancesByName(p, name) ==
    /\ pc[p] = "idle"
    /\ Return(p, [QueryReturn("GetRunningInstancesByName",
                              GetRunningInstancesByName(name))
                     EXCEPT !.call.name = name])
    /\ sent' = <<>>
    /\ launched' = NoCmd
    /\ UNCHANGED <<dirs, procs>>

\* ------------------------------------------------------------- construction
\* New: the runner is constructed in a workspace with the spec files filenames.
New(p, filenames) ==
    /\ pc[p] = "idle"
    /\ Return(p, [NoRet EXCEPT !.op = "New", !.filenames = filenames,
                               !.apps = loadRunnerSpec(filenames)])
    /\ sent' = <<>>
    /\ launched' = NoCmd
    /\ UNCHANGED <<dirs, procs>>

\* ------------------------------------------------------------- calls on an AppInstance
\* The AppInstance values in the hands of a caller: the calls read the Pid alone.
HeldInstances == {[NullInstance EXCEPT !.Pid = q] : q \in Pids}

CallGetStatus(p, instance) ==
    /\ pc[p] = "idle"
    /\ LET st == GetStatus(instance)
       IN  Return(p, [NoRet EXCEPT !.op = "GetStatus", !.instance = instance,
                                   !.status = st.status, !.err = st.err])
    /\ sent' = <<>>
    /\ launched' = NoCmd
    /\ UNCHANGED <<dirs, procs>>

CallStop(p, instance) ==
    /\ pc[p] = "idle"
    /\ LET r == InstanceStop(instance)
       IN  /\ Return(p, [NoRet EXCEPT !.op = "Instance.Stop",
                                      !.instance = instance, !.err = r.err])
           /\ sent' = r.sent
           /\ launched' = NoCmd
    /\ UNCHANGED <<dirs, procs>>

CallQuit(p, instance) ==
    /\ pc[p] = "idle"
    /\ LET r == InstanceQuit(instance)
       IN  /\ Return(p, [NoRet EXCEPT !.op = "Instance.Quit",
                                      !.instance = instance, !.err = r.err])
           /\ sent' = r.sent
           /\ launched' = NoCmd
    /\ UNCHANGED <<dirs, procs>>

CallKill(p, instance) ==
    /\ pc[p] = "idle"
    /\ LET r == InstanceKill(instance)
       IN  /\ Return(p, [NoRet EXCEPT !.op = "Instance.Kill",
                                      !.instance = instance, !.err = r.err])
           /\ sent' = r.sent
           /\ launched' = NoCmd
    /\ UNCHANGED <<dirs, procs>>

\* The caller has taken the result of its operation; the invocation is over.
Exit(p) ==
    /\ pc[p] = "done"
    /\ pc' = [pc EXCEPT ![p] = "idle"]
    /\ ret' = [ret EXCEPT ![p] = NoRet]
    /\ sent' = <<>>
    /\ launched' = NoCmd
    /\ UNCHANGED <<dirs, procs, loc>>

\* The process of the invocation is killed in the middle of its operation: no
\* deferred function runs, the store stays as the operation left it.
Crash(p) ==
    /\ pc[p] \notin {"idle", "done"}
    /\ pc' = [pc EXCEPT ![p] = "idle"]
    /\ loc' = [loc EXCEPT ![p] = IdleLoc]
    /\ sent' = <<>>
    /\ launched' = NoCmd
    /\ UNCHANGED <<dirs, procs, ret>>

\* ------------------------------------------------------------- the processes
\* A process ends, of itself or by a signal it was sent. Whether a handle can
\* still be acquired for its pid afterwards depends on the platform.
ProcessExit(pid, after) ==
    /\ procs[pid] \in {"alive", "foreign"}
    /\ procs' = [procs EXCEPT ![pid] = after]
    /\ sent' = <<>>
    /\ launched' = NoCmd
    /\ UNCHANGED <<dirs, pc, loc, ret>>

\* The pid of a process that ended is taken by a process of another owner.
PidReused(pid) ==
    /\ procs[pid] \in {"none", "nohandle"}
    /\ procs' = [procs EXCEPT ![pid] = "foreign"]
    /\ sent' = <<>>
    /\ launched' = NoCmd
    /\ UNCHANGED <<dirs, pc, loc, ret>>

\* ------------------------------------------------------------- specifications
\* The steps of a Start whose call is one of requests.
StartSteps(p, requests) ==
    \/ \E r \in requests : StartBegin(p, r.name, r.command, r.options)
    \/ StartCheck(p)
    \/ StartStopOld(p)
    \/ StartNewID(p)
    \/ StartMkdir(p)
    \/ StartCreateStderr(p)
    \/ StartCreateStdout(p)
    \/ StartLaunch(p)
    \/ StartRelease(p)
    \/ StartOpenInfo(p)
    \/ StartWriteInfo(p)

CleanAllSteps(p) ==
    \/ CleanAllBegin(p)
    \/ CleanAllStep(p)

StopSteps(p) ==
    \/ \E id \in IDs, clean \in BOOLEAN : StopBegin(p, id, clean)
    \/ StopSignal(p)
    \/ StopClean(p)

RestartSteps(p) ==
    \/ \E id \in IDs, clean \in BOOLEAN : RestartBegin(p, id, clean)
    \/ RestartSignal(p)
    \/ RestartClean(p)
    \/ RestartStart(p)

RemovalCalls(p) ==
    \/ \E id \in IDs : CallClean(p, id)
    \/ \E id \in IDs : CallRemoveInstance(p, id)

\* The names the CLI looks instances up by.
LookupNames == {"svc", "service", "\\xff"}

LookupCalls(p) ==
    \/ \E onlyRunning \in BOOLEAN : CallList(p, onlyRunning)
    \/ \E id \in IDs : CallGetInstance(p, id)
    \/ \E name \in LookupNames : CallGetInstancesByName(p, name)
    \/ \E name \in LookupNames : CallGetRunningInstancesByName(p, name)

InstanceCalls(p) ==
    \/ \E instance \in HeldInstances : CallGetStatus(p, instance)
    \/ \E instance \in HeldInstances : CallStop(p, instance)
    \/ \E instance \in HeldInstances : CallQuit(p, instance)
    \/ \E instance \in HeldInstances : CallKill(p, instance)

\* The operations of the runner, one invocation at a time, on a platform where
\* a process handle is always acquired (os.FindProcess never fails on Unix).
Next ==
    \/ StartSteps(1, StartRequests)
    \/ StopSteps(1)
    \/ CleanAllSteps(1)
    \/ Exit(1)
    \/ \E pid \in Pids : ProcessExit(pid, "none")
    \/ \E pid \in Pids : PidReused(pid)

Spec == Init /\ [][Next]_vars

\* The Start calls of the specification of every operation: an application of
\* the spec table, and one with an argument that is not valid UTF-8.
OpsRequests ==
    {r \in StartRequests : r.command = "" <=> r.name = "svc"}

\* Every operation of the runner, one invocation at a time.
OpsNext ==
    \/ StartSteps(1, OpsRequests)
    \/ StopSteps(1)
    \/ RestartSteps(1)
    \/ CleanAllSteps(1)
    \/ RemovalCalls(1)
    \/ LookupCalls(1)
    \/ Exit(1)
    \/ \E pid \in Pids : ProcessExit(pid, "none")
    \/ \E pid \in Pids : PidReused(pid)

OpsSpec == Init /\ [][OpsNext]_vars

\* The Start calls of the restart specification: an application filed under its
\* own Name whose spec has arguments, with and without them, an application
\* filed under another key, and one that is not in the spec table.
RestartRequests ==
    { [name |-> "web", command |-> "", options |-> NoOptions],
      [name |-> "web", command |-> "",
       options |-> [NoOptions EXCEPT !.Args = <<"-x">>, !.IgnoreSpecArgs = TRUE]],
      [name |-> "svc", command |-> "",
       options |-> [NoOptions EXCEPT !.Args = <<"-v">>, !.Background = TRUE]],
      [name |-> "echo", command |-> "sleep",
       options |-> [NoOptions EXCEPT !.Args = <<"-v">>]] }

\* A Restart of an instance whose record has fewer than MaxArgs arguments.
RestartShort(p) ==
    \E id \in IDs, clean \in BOOLEAN :
        /\ Len(GetInstance(id).instance.Options.Args) < MaxArgs
        /\ RestartBegin(p, id, clean)

\* Starts and Restarts, one invocation at a time, while the processes end.
RestartNext ==
    \/ StartSteps(1, RestartRequests)
    \/ RestartShort(1)
    \/ RestartSignal(1)
    \/ RestartClean(1)
    \/ RestartStart(1)
    \/ Exit(1)
    \/ \E pid \in Pids : ProcessExit(pid, "none")

RestartSpec == Init /\ [][RestartNext]_vars

\* The Start calls of the lookup specification: an application of the spec
\* table, one whose name is not valid UTF-8, one whose spec has no command.
LookupRequests ==
    { [name |-> "svc", command |-> "",
       options |-> [NoOptions EXCEPT !.Background = TRUE]],
      [name |-> "\\xff", command |-> "sleep",
       options |-> [NoOptions EXCEPT !.Singleton = TRUE]],
      [name |-> "tool", command |-> "", options |-> NoOptions] }

\* Starts, lookups and CleanAll, one invocation at a time, where the process of
\* an invocation can be killed in the middle of its operation.
LookupNext ==
    \/ StartSteps(1, LookupRequests)
    \/ LookupCalls(1)
    \/ CleanAllSteps(1)
    \/ Crash(1)
    \/ Exit(1)
    \/ \E pid \in Pids : ProcessExit(pid, "none")
    \/ \E pid \in Pids : PidReused(pid)

LookupSpec == Init /\ [][LookupNext]_vars

\* The Start calls of the resolution specification: for a name of the table
\* with arguments, one with none and no working directory, and a name that is
\* not in the table, a call that gives nothing, one that gives everything, and
\* two that ignore the arguments of the spec.
ResolveRequests ==
    {[name |-> name, command |-> c.command, options |-> c.options] :
        name \in {"svc", "job", "echo"},
        c \in { [command |-> "", options |-> NoOptions],
                [command |-> "run",
                 options |-> [NoOptions EXCEPT !.Args = <<"-v">>, !.WorkDir = "/w",
                                               !.Singleton = TRUE]],
                [command |-> "run",
                 options |-> [NoOptions EXCEPT !.Args = <<"-v">>,
                                               !.IgnoreSpecArgs = TRUE,
                                               !.Background = TRUE]],
                [command |-> "", options |-> [NoOptions EXCEPT !.IgnoreSpecArgs = TRUE]] }}

\* Starts over the calls of the resolution, one invocation at a time, while
\* every process launched stays alive.
ResolveNext ==
    \/ StartSteps(1, ResolveRequests)
    \/ Exit(1)

ResolveSpec == Init /\ [][ResolveNext]_vars

\* The contents a runner spec file can have.
AppSpecs ==
    { [Name |-> "service", Command |-> "serve", Workdir |-> "/a",
       Singleton |-> TRUE, Args |-> <<"-p">>],
      [Name |-> "svc", Command |-> "", Workdir |-> "/b",
       Singleton |-> FALSE, Args |-> <<>>] }

AppTables ==
    UNION {[names -> AppSpecs] : names \in SUBSET {"svc", "tool"}}

FileContents == {MissingFile, BrokenFile} \cup {SpecFile(t) : t \in AppTables}

Filenames ==
    {<<g, u, pr>> : g \in FileContents, u \in FileContents, pr \in FileContents}

\* The construction of the runner over every workspace.
LoadNext ==
    \/ \E filenames \in Filenames : New(1, filenames)
    \/ Exit(1)

LoadSpec == Init /\ [][LoadNext]_vars

\* The Start calls that ask for a singleton.
SingletonRequests == {r \in StartRequests : r.options.Singleton}

\* The calls on AppInstance values and Stop, one invocation at a time, on any
\* platform: the handle of a process that ended may or may not be acquired.
ProbeNext ==
    \/ StartSteps(1, SingletonRequests)
    \/ StopSteps(1)
    \/ InstanceCalls(1)
    \/ Exit(1)
    \/ \E pid \in Pids, after \in {"none", "nohandle"} : ProcessExit(pid, after)
    \/ \E pid \in Pids : PidReused(pid)

ProbeSpec == Init /\ [][ProbeNext]_vars

\* Two invocations whose system calls interleave: both start the singleton
\* application, the second also cleans the store, while the processes end.
ConcNext ==
    \/ \E p \in Invocations : StartSteps(p, SingletonRequests)
    \/ CleanAllSteps(2)
    \/ \E p \in Invocations : Exit(p)
    \/ \E pid \in Pids : ProcessExit(pid, "none")

ConcSpec == Init /\ [][ConcNext]_vars

\* ------------------------------------------------------------- properties
\* The records of the store.
StoredInstances ==
    {Unmarshal(dirs[i].info) : i \in {j \in IDs : dirs[j].exists /\ UnmarshalOK(dirs[j].info)}}

RunningOfName(name) ==
    {instance \in StoredInstances :
        instance.Name = name /\ GetStatus(instance).status = StatusRunning}

\* Every instance directory holds a record that parses.
AllDirsValid == \A i \in IDs : dirs[i].exists => UnmarshalOK(dirs[i].info)

\* The positions of a Start that has created its instance directory.
StartAllocated == {"stderr", "stdout", "launch", "release", "open", "write"}

AllocationErrors == {ErrCreate, ErrLaunch, ErrRelease, ErrWrite}

StartSucceeded(p) == pc[p] = "done" /\ ret[p].op = "Start" /\ ret[p].err = Nil

\* C1: when a successful Start with Singleton returns and the store holds the
\* record of an earlier singleton Start of the same name (under another pid),
\* and the new process is alive, exactly one instance of the name is Running
\* and it has the returned Pid.
C1_TwoStartsOneRunning ==
    \A p \in Invocations :
        LET new == ret[p].instance
        IN  ( /\ StartSucceeded(p)
              /\ new.Options.Singleton
              /\ procs[new.Pid] = "alive"
              /\ \E old \in StoredInstances :
                    old.ID # new.ID /\ old.Name = new.Name /\ old.Options.Singleton
              /\ \A old \in StoredInstances : old.ID # new.ID => old.Pid # new.Pid )
            => /\ Cardinality(RunningOfName(new.Name)) = 1
               /\ \A instance \in RunningOfName(new.Name) : instance.Pid = new.Pid

C3_FailedStartRemovesOnlyItsDir ==
    [][\A p \in Invocations :
          /\ pc[p] = "idle" /\ (loc'[p].op = "Start" \/ ret'[p].op = "Start")
                => dirs' = dirs
          /\ loc[p].op = "Start"
                => \A i \in IDs \ {loc[p].id} : dirs'[i] = dirs[i]
          /\ pc[p] \in StartAllocated /\ pc'[p] = "done" /\ ret'[p].err # Nil
                => ~dirs'[loc[p].id].exists]_vars

\* A Start has failed on the write of its record while the store holds an
\* instance.
C3_Witness ==
    \E p \in Invocations :
        /\ pc[p] = "done" /\ ret[p].op = "Start" /\ ret[p].err = ErrWrite
        /\ \E i \in IDs : dirs[i].exists /\ UnmarshalOK(dirs[i].info)

\* C4: when Start has returned a record, GetInstance of its ID yields a record
\* equal to it.
C4_RoundTrip ==
    \A p \in Invocations :
        StartSucceeded(p)
            => GetInstance(ret[p].instance.ID) =
                   [err |-> Nil, instance |-> ret[p].instance]

\* C5: every stored record lies in the directory named by its ID; the ID a Start
\* holds names no directory when it is returned and the directory of no stored
\* record afterwards; while Start draws, an ID can be
\* returned if and only if no directory of that name exists (whether or not one
\* existed before), and a colliding draw leaves Start drawing again.
C5_FreshID ==
    \A p \in Invocations :
        /\ \A instance \in StoredInstances :
              dirs[instance.ID].info = Marshal(instance)
        /\ pc[p] = "mkdir" => ~dirs[loc[p].id].exists
        /\ pc[p] \in StartAllocated => ~UnmarshalOK(dirs[loc[p].id].info)
        /\ pc[p] = "newid" =>
              \A b \in IdBytes :
                  /\ (ENABLED (getNextRandomID(p, b) /\ pc'[p] = "mkdir"))
                        <=> ~dirs[HexEncode(b)].exists
                  /\ (ENABLED (getNextRandomID(p, b) /\ pc'[p] = "newid"))
                        <=> dirs[HexEncode(b)].exists

\* A Start holds a fresh ID while the other ID names a directory.
C5_Witness ==
    \E p \in Invocations :
        /\ pc[p] = "mkdir"
        /\ \E i \in IDs : i # loc[p].id /\ dirs[i].exists

\* No process stands behind the pid.
Exited(pid) == procs[pid] \in {"none", "nohandle"}

\* C6: GetStatus changes neither the store nor a process and sends nothing; it
\* returns Exited without error when no handle is acquired or the probe reports
\* a finished process (so for a pid with no process), Running without error
\* when the probe is delivered, and Error with the cause for any other failure.
C6_StatusFromProbe ==
    [][\A p \in Invocations :
          pc[p] = "idle" /\ pc'[p] = "done" /\ ret'[p].op = "GetStatus"
             => LET pid == ret'[p].instance.Pid
                    status == ret'[p].status
                    err == ret'[p].err
                IN  /\ dirs' = dirs /\ procs' = procs /\ sent' = <<>>
                    /\ FindProcess(pid) # Nil
                          => status = StatusExited /\ err = Nil
                    /\ FindProcess(pid) = Nil /\ Signal(pid, 0) = ErrFinished
                          => status = StatusExited /\ err = Nil
                    /\ FindProcess(pid) = Nil /\ Signal(pid, 0) = Nil
                          => status = StatusRunning /\ err = Nil
                    /\ FindProcess(pid) = Nil /\ Signal(pid, 0) \notin {Nil, ErrFinished}
                          => status = StatusError /\ err = Signal(pid, 0)
                    /\ Exited(pid) => status = StatusExited /\ err = Nil]_vars

\* GetStatus has returned Exited for a pid with no process behind it.
C6_Witness ==
    \E p \in Invocations :
        /\ pc[p] = "done" /\ ret[p].op = "GetStatus"
        /\ procs[ret[p].instance.Pid] = "none"
        /\ ret[p].status = StatusExited /\ ret[p].err = Nil

\* C7, as claimed: when Stop(id, clean) returns for an instance whose process
\* has exited, it returns no error, and so does the same call made next.
C7_StopTwiceNoError ==
    [][\A p \in Invocations :
          ( /\ pc[p] # "done" /\ pc'[p] = "done" /\ ret'[p].op = "Stop"
            /\ ret'[p].instance # NullInstance
            /\ Exited(ret'[p].instance.Pid) )
             => /\ ret'[p].err = Nil
                /\ \A i \in IDs : ret'[p].id = i => StopError(i)' = Nil]_vars

\* C7, amended: the first call returns no error; the same call made next
\* returns no error when clean is false and the not-found error when clean is
\* true, the first call having removed the instance.
C7_StopTwiceUnlessCleaned ==
    [][\A p \in Invocations :
          ( /\ pc[p] # "done" /\ pc'[p] = "done" /\ ret'[p].op = "Stop"
            /\ ret'[p].instance # NullInstance
            /\ Exited(ret'[p].instance.Pid) )
             => /\ ret'[p].err = Nil
                /\ \A i \in IDs :
                      ret'[p].id = i
                         => StopError(i)' = IF ret'[p].clean THEN ErrNotFound ELSE Nil]_vars

\* Stop(id, true) has returned no error for an instance whose process has
\* exited, and a second Stop(id, true) would not find the instance.
C7_Witness ==
    \E p \in Invocations :
        /\ pc[p] = "done" /\ ret[p].op = "Stop" /\ ret[p].err = Nil /\ ret[p].clean
        /\ ret[p].instance # NullInstance
        /\ Exited(ret[p].instance.Pid)
        /\ StopError(ret[p].id) = ErrNotFound

InstanceSignals ==
    [k \in {"Instance.Stop", "Instance.Quit", "Instance.Kill"} |->
        CASE k = "Instance.Stop" -> SignalInt
          [] k = "Instance.Quit" -> SignalQuit
          [] k = "Instance.Kill" -> SignalKill]

\* C8: Stop, Quit and Kill of an instance change neither the store nor the
\* process table; each returns no error and sends nothing when no handle is
\* acquired or the delivery reports a finished process, sends its own signal once
\* to the stored Pid when the delivery succeeds, and returns the delivery error,
\* having sent nothing, otherwise.
C8_SignalShape ==
    [][\A p \in Invocations :
          pc[p] = "idle" /\ pc'[p] = "done" /\ ret'[p].op \in DOMAIN InstanceSignals
             => LET pid == ret'[p].instance.Pid
                    sig == InstanceSignals[ret'[p].op]
                    err == ret'[p].err
                IN  /\ dirs' = dirs /\ procs' = procs
                    /\ IF FindProcess(pid) # Nil \/ Signal(pid, sig) = ErrFinished
                       THEN err = Nil /\ sent' = <<>>
                       ELSE IF Signal(pid, sig) = Nil
                       THEN err = Nil /\ sent' = <<<<pid, sig>>>>
                       ELSE err = Signal(pid, sig) /\ sent' = <<>>]_vars

\* Kill has delivered the kill signal to the Pid of the instance.
C8_Witness ==
    \E p \in Invocations :
        /\ pc[p] = "done" /\ ret[p].op = "Instance.Kill" /\ ret[p].err = Nil
        /\ sent = <<<<ret[p].instance.Pid, SignalKill>>>>

\* C9: a Stop of an existing instance changes no directory but the one of id;
\* that one is removed when clean is true and the signal step returned no error,
\* and is as it was otherwise.
C9_StopRemovesIffClean ==
    [][\A p \in Invocations :
          /\ pc[p] = "idle" /\ (loc'[p].op = "Stop" \/ ret'[p].op = "Stop")
                => dirs' = dirs
          /\ loc[p].op = "Stop" /\ pc'[p] # "done"
                => dirs' = dirs
          /\ loc[p].op = "Stop" /\ pc'[p] = "done"
                => /\ \A i \in IDs \ {loc[p].id} : dirs'[i] = dirs[i]
                   /\ dirs[loc[p].id].exists
                   /\ IF ret'[p].clean /\ ret'[p].err = Nil
                      THEN ~dirs'[loc[p].id].exists
                      ELSE dirs'[loc[p].id] = dirs[loc[p].id]]_vars

\* Stop(id, true) has returned no error, the directory of id is gone and another
\* instance is in the store.
C9_Witness ==
    \E p \in Invocations :
        /\ pc[p] = "done" /\ ret[p].op = "Stop" /\ ret[p].err = Nil /\ ret[p].clean
        /\ ret[p].instance # NullInstance
        /\ ~dirs[ret[p].id].exists
        /\ \E i \in IDs : dirs[i].exists

\* The step is one of invocation p.
StepOf(p) == pc'[p] # pc[p] \/ loc'[p] # loc[p]

\* C10: CleanAll lists every instance of the store; a turn of its loop removes
\* the directory of the probed instance if its status is Exited and leaves it as
\* it is if the status is Running or Error; no turn changes another directory or
\* sends a signal, and CleanAll returns no error once every instance is probed.
C10_CleanAllRemovesExited ==
    [][\A p \in Invocations :
          /\ pc[p] = "idle" /\ (loc'[p].op = "CleanAll" \/ ret'[p].op = "CleanAll")
                => /\ dirs' = dirs /\ procs' = procs /\ sent' = <<>>
                   /\ pc'[p] = "cleanall"
                         => {loc'[p].instances[k] : k \in DOMAIN loc'[p].instances}
                               = StoredInstances
          /\ pc[p] = "cleanall" /\ StepOf(p)
                => LET instance == Head(loc[p].instances)
                       status == GetStatus(instance).status
                   IN  /\ procs' = procs /\ sent' = <<>>
                       /\ \A i \in IDs \ {instance.ID} : dirs'[i] = dirs[i]
                       /\ status \in {StatusRunning, StatusError}
                             => dirs'[instance.ID] = dirs[instance.ID]
                       /\ status = StatusExited => ~dirs'[instance.ID].exists
                       /\ pc'[p] = "done" <=> Len(loc[p].instances) = 1
                       /\ pc'[p] = "done" => ret'[p].err = Nil]_vars

\* CleanAll has returned no error; an instance whose process is alive is still
\* in the store with its log files, and the other directory is gone.
C10_Witness ==
    \E p \in Invocations :
        /\ pc[p] = "done" /\ ret[p].op = "CleanAll" /\ ret[p].err = Nil
        /\ \E i \in IDs :
              /\ dirs[i].exists /\ UnmarshalOK(dirs[i].info)
              /\ procs[Unmarshal(dirs[i].info).Pid] = "alive"
              /\ dirs[i].logs = {InstanceLogStderrName, InstanceLogStdoutName}
        /\ \E j \in IDs : ~dirs[j].exists

\* C11: Restart(id, clean) loads the record of id without touching anything;
\* its signal step changes no directory, delivers the interrupt signal to the old
\* Pid if that process is alive and nothing otherwise, and does not fail for a
\* process that has exited; it then removes the old directory (and nothing
\* else) exactly when clean is set, before Start is called with the Name,
\* Command and Options of the loaded record. No step of a Restart without
\* clean changes the old directory. A successful Restart returns the record
\* Start wrote; without clean its ID differs from id and the old record is
\* still stored; with clean the old directory is gone unless the new instance
\* has the same ID.
C11_RestartStopsCleansStarts ==
    [][\A p \in Invocations :
          LET id == loc[p].restart.id
              clean == loc[p].restart.clean
              old == loc[p].restart.instance
          IN  /\ pc[p] = "idle" /\ pc'[p] = "restartsignal"
                    => /\ dirs' = dirs /\ procs' = procs /\ sent' = <<>>
                       /\ dirs[loc'[p].restart.id].info =
                              Marshal(loc'[p].restart.instance)
              /\ pc[p] = "restartsignal" /\ StepOf(p)
                    => /\ dirs' = dirs /\ procs' = procs /\ launched' = NoCmd
                       /\ sent' = IF procs[old.Pid] = "alive"
                                  THEN <<<<old.Pid, SignalInt>>>> ELSE <<>>
                       /\ Exited(old.Pid) => pc'[p] # "done"
                       /\ pc'[p] = "done" => ret'[p].err # Nil
                       /\ pc'[p] # "done"
                             => pc'[p] = IF clean THEN "restartclean"
                                                 ELSE "restartstart"
              /\ pc[p] = "restartclean" /\ StepOf(p)
                    => /\ ~dirs'[id].exists
                       /\ \A i \in IDs \ {id} : dirs'[i] = dirs[i]
                       /\ procs' = procs /\ sent' = <<>> /\ launched' = NoCmd
                       /\ pc'[p] = "restartstart"
              /\ pc[p] = "restartstart" /\ StepOf(p)
                    => /\ dirs' = dirs /\ procs' = procs
                       /\ (IF pc'[p] = "done" THEN ret'[p].call ELSE loc'[p].call)
                             = [name |-> old.Name, command |-> old.Command,
                                options |-> old.Options]
              /\ loc[p].restart.on /\ ~clean /\ StepOf(p)
                    => dirs'[id] = dirs[id]
              /\ ( /\ pc[p] # "done" /\ pc'[p] = "done"
                   /\ ret'[p].restart.on /\ ret'[p].err = Nil )
                    => LET new == ret'[p].instance
                       IN  /\ ret'[p].op = "Start"
                           /\ dirs'[new.ID].info = Marshal(new)
                           /\ ~clean => /\ new.ID # id
                                        /\ dirs'[id].info = Marshal(old)
                           /\ clean => ~dirs'[id].exists \/ new.ID = id]_vars

\* Restart(id, false) has returned a new record and the old one is in the store.
C11_Witness ==
    \E p \in Invocations :
        /\ pc[p] = "done" /\ ret[p].restart.on /\ ret[p].err = Nil
        /\ ~ret[p].restart.clean
        /\ ret[p].instance.ID # ret[p].restart.id
        /\ dirs[ret[p].restart.id].info = Marshal(ret[p].restart.instance)

\* C12: no step of any operation changes a record of the store while its
\* directory stays: a directory that holds a record either keeps the same
\* info file, and GetInstance of its ID reads the same record, or is removed.
C12_RecordNeverModified ==
    [][\A i \in IDs :
          UnmarshalOK(dirs[i].info) /\ dirs'[i].exists
             => /\ dirs'[i].info = dirs[i].info
                /\ GetInstance(i)' = GetInstance(i)]_vars

\* Stop(id, false) has returned and the record it loaded is still the record
\* of id, while another instance has been started as well.
C12_Witness ==
    \E p \in Invocations :
        /\ pc[p] = "done" /\ ret[p].op = "Stop" /\ ~ret[p].clean
        /\ ret[p].instance # NullInstance
        /\ dirs[ret[p].id].info = Marshal(ret[p].instance)
        /\ \E i \in IDs \ {ret[p].id} : UnmarshalOK(dirs[i].info)

\* The enumerations of the whole store, and the errors of an enumeration.
Enumerations == {"List", "GetInstancesByName", "GetRunningInstancesByName"}
EnumerationErrors == {ErrReadInfo, ErrBrokenInfo}

\* C13: an enumeration over any ID predicate returns an error and no records
\* when a directory that passes the predicate has no record file or one that
\* does not parse. While the store holds such a directory, List,
\* GetInstancesByName and GetRunningInstancesByName return that error and no
\* records, CleanAll returns it and removes nothing, and a Start whose resolved
\* Singleton is set returns an error, having signalled and launched nothing and
\* changed no directory.
C13_AllOrNothing ==
    /\ [](\A idFilterFunc \in SUBSET IDs :
            (\E i \in idFilterFunc : dirs[i].exists /\ ~UnmarshalOK(dirs[i].info))
               => LET r == loadInstances(idFilterFunc, Decodable)
                  IN  r.err \in EnumerationErrors /\ r.instances = <<>>)
    /\ [][\A p \in Invocations :
            (pc[p] = "idle" /\ StepOf(p) /\ ~AllDirsValid)
               => /\ ret'[p].op \in Enumerations
                        => /\ ret'[p].err \in EnumerationErrors
                           /\ ret'[p].instances = <<>>
                           /\ dirs' = dirs
                  /\ loc'[p].op # "CleanAll"
                  /\ ret'[p].op = "CleanAll"
                        => ret'[p].err \in EnumerationErrors /\ dirs' = dirs
                  /\ loc'[p].op = "Start" => ~loc'[p].options.Singleton
                  /\ ( /\ ret'[p].op = "Start"
                       /\ ResolveStart(ret'[p].call.name, ret'[p].call.command,
                                       ret'[p].call.options).options.Singleton )
                        => /\ ret'[p].err # Nil
                           /\ dirs' = dirs /\ procs' = procs
                           /\ sent' = <<>> /\ launched' = NoCmd]_vars

\* CleanAll has failed on a directory without a record that parses, and the
\* record of an instance that has exited is still in the store.
C13_Witness ==
    \E p \in Invocations :
        /\ pc[p] = "done" /\ ret[p].op = "CleanAll"
        /\ ret[p].err \in EnumerationErrors
        /\ ~AllDirsValid
        /\ \E instance \in StoredInstances : Exited(instance.Pid)

\* The arguments of the Start that invocation p has entered or left in a step.
CallOf(p) == IF pc'[p] = "done" THEN ret'[p].call ELSE loc'[p].call

\* C14: a call of Start whose resolved command is empty returns the error
\* "Require command" at once: it changes no directory and no process, sends
\* no signal and launches nothing, whether or not Singleton is set; and Start
\* returns that error for no other call.
C14_EmptyCommandNoEffect ==
    [][\A p \in Invocations :
          ( /\ pc[p] = "idle" /\ StepOf(p)
            /\ (loc'[p].op = "Start" \/ ret'[p].op = "Start") )
             => LET r == ResolveStart(CallOf(p).name, CallOf(p).command,
                                      CallOf(p).options)
                IN  /\ r.command = ""
                          => /\ pc'[p] = "done" /\ ret'[p].err = ErrRequireCommand
                             /\ ret'[p].instance = NullInstance
                             /\ dirs' = dirs /\ procs' = procs
                             /\ sent' = <<>> /\ launched' = NoCmd
                    /\ r.command # ""
                          => ~(pc'[p] = "done" /\ ret'[p].err = ErrRequireCommand)]_vars

\* A Start with Singleton set and no command has returned the error while an
\* instance of its name is Running.
C14_Witness ==
    \E p \in Invocations :
        /\ pc[p] = "done" /\ ret[p].op = "Start" /\ ret[p].err = ErrRequireCommand
        /\ ret[p].call.options.Singleton
        /\ RunningOfName(ret[p].call.name) # {}

\* The positions of the singleton step of a Start.
SingletonStep == {"check", "stopold"}

\* C15: in a Start with Singleton set, a failed enumeration of the instances
\* of the name, a status probe that yields an error and a stop signal that
\* cannot be delivered each make Start return an error at that step; a Start
\* in its singleton step holds no ID and no Pid, and a Start that fails there
\* has created no directory and launched no process.
C15_SingletonFailureAborts ==
    [][\A p \in Invocations :
          /\ pc[p] \in SingletonStep
                => loc[p].id = NoID /\ loc[p].pid = NoPid
          /\ ( /\ pc[p] = "idle" /\ StepOf(p)
               /\ (loc'[p].op = "Start" \/ ret'[p].op = "Start") )
                => LET r == ResolveStart(CallOf(p).name, CallOf(p).command,
                                         CallOf(p).options)
                       found == GetInstancesByName(r.name)
                   IN  (r.command # "" /\ r.options.Singleton /\ found.err # Nil)
                          => /\ pc'[p] = "done" /\ ret'[p].err = found.err
                             /\ dirs' = dirs /\ procs' = procs
                             /\ sent' = <<>> /\ launched' = NoCmd
          /\ (pc[p] = "check" /\ StepOf(p) /\ pc'[p] # "idle")
                => LET st == GetStatus(Head(loc[p].instances))
                   IN  /\ st.status = StatusError
                             => /\ pc'[p] = "done"
                                /\ ret'[p].err = ErrGetStatus(st.err)
                       /\ st.status # StatusError => pc'[p] # "done"
                       /\ dirs' = dirs /\ procs' = procs
                       /\ sent' = <<>> /\ launched' = NoCmd
          /\ (pc[p] = "stopold" /\ StepOf(p) /\ pc'[p] # "idle")
                => LET r == InstanceStop(Head(loc[p].instances))
                   IN  /\ r.err # Nil
                             => /\ pc'[p] = "done"
                                /\ ret'[p].err = ErrStopProcess(r.err)
                                /\ sent' = <<>>
                       /\ r.err = Nil => pc'[p] # "done"
                       /\ dirs' = dirs /\ procs' = procs /\ launched' = NoCmd
          /\ (pc[p] \in SingletonStep /\ pc'[p] = "done")
                => ret'[p].err # Nil /\ ret'[p].instance = NullInstance]_vars

\* A Start has failed because the stop signal to an instance it found Running
\* could not be delivered.
C15_Witness ==
    \E p \in Invocations :
        /\ pc[p] = "done" /\ ret[p].op = "Start"
        /\ ret[p].err = ErrStopProcess(ErrNotPermitted)
        /\ \E instance \in StoredInstances :
              instance.Name = "service" /\ procs[instance.Pid] = "foreign"

\* The values a Start called with call is to launch and record.
Resolved(call) ==
    IF call.name \in DOMAIN Apps
    THEN LET appSpec == Apps[call.name]
         IN  [Name |-> appSpec.Name,
              Command |-> IF call.command # "" THEN call.command ELSE appSpec.Command,
              WorkDir |-> IF call.options.WorkDir # "" THEN call.options.WorkDir
                          ELSE appSpec.Workdir,
              Singleton |-> call.options.Singleton \/ appSpec.Singleton,
              Args |-> IF call.options.IgnoreSpecArgs THEN call.options.Args
                       ELSE appSpec.Args \o call.options.Args]
    ELSE [Name |-> call.name, Command |-> call.command,
          WorkDir |-> call.options.WorkDir, Singleton |-> call.options.Singleton,
          Args |-> call.options.Args]

\* C16: with the name in the spec table, Start launches the caller's command
\* if it is not empty and the spec's otherwise, in the caller's working
\* directory if it is not empty and the spec's otherwise, with the arguments of
\* the spec followed by the caller's, or the caller's alone when IgnoreSpecArgs
\* is set; it runs the singleton step only if the caller or the spec sets
\* Singleton; the record it returns and writes has the Name of the spec and
\* these values. With the name not in the table, name, command and options are
\* launched and recorded as given.
C16_ResolvedValues ==
    [][\A p \in Invocations :
          LET r == Resolved(loc[p].call)
          IN  /\ pc'[p] \in SingletonStep => Resolved(loc'[p].call).Singleton
              /\ pc[p] = "launch" /\ launched' # NoCmd
                    => /\ launched'.Path = r.Command
                       /\ launched'.Args = r.Args
                       /\ launched'.Dir = r.WorkDir
              /\ pc[p] = "write" /\ pc'[p] = "done" /\ ret'[p].err = Nil
                    => LET instance == ret'[p].instance
                       IN  /\ instance.Name = r.Name
                           /\ instance.Command = r.Command
                           /\ instance.Options =
                                 [loc[p].call.options EXCEPT
                                     !.Args = r.Args, !.WorkDir = r.WorkDir,
                                     !.Singleton = r.Singleton]
                           /\ loc[p].call.name \notin DOMAIN Apps
                                 => /\ instance.Name = loc[p].call.name
                                    /\ instance.Command = loc[p].call.command
                                    /\ instance.Options = loc[p].call.options
                           /\ dirs'[instance.ID].info = Marshal(instance)]_vars

\* A Start of a name of the table that gave a command, a working directory
\* and arguments has returned a record with the Name and the arguments of the
\* spec, and one that ignored the arguments of the spec is in the store.
C16_Witness ==
    \E p \in Invocations :
        /\ pc[p] = "done" /\ ret[p].op = "Start" /\ ret[p].err = Nil
        /\ ret[p].call.name = "svc" /\ ret[p].call.command = "run"
        /\ ret[p].instance.Name = "service"
        /\ ret[p].instance.Options.Args = <<"-p", "-v">>
        /\ \E instance \in StoredInstances :
              instance.Options.IgnoreSpecArgs /\ instance.Options.Args = <<"-v">>

\* C17: a Start with Singleton set that has passed its check and has created
\* nothing yet is not seen by the check of another invocation: while it is about
\* to draw its ID or to create its directory and the store holds no instance of
\* the name, the same call made by the other invocation passes the check as
\* well, with no signal sent.
C17_CheckBlindToStartInFlight ==
    \A p \in Invocations : \A q \in Invocations \ {p} :
        ( /\ pc[p] \in {"newid", "mkdir"} /\ loc[p].options.Singleton
          /\ pc[q] = "idle"
          /\ AllDirsValid
          /\ \A instance \in StoredInstances : instance.Name # loc[p].name )
           => ENABLED ( /\ StartBegin(q, loc[p].call.name, loc[p].call.command,
                                      loc[p].call.options)
                       /\ pc'[q] = "newid" /\ sent' = <<>> )

\* Both invocations have returned from a Start with Singleton set of the same
\* name without error, neither has signalled a process, and the two instances
\* are in the store and Running.
C17_Witness ==
    /\ \A p \in Invocations :
          /\ StartSucceeded(p) /\ ret[p].instance.Options.Singleton
          /\ ret[p].stopped = {}
    /\ ret[1].instance.Name = ret[2].instance.Name
    /\ ret[1].instance.ID # ret[2].instance.ID
    /\ {ret[1].instance, ret[2].instance} \subseteq RunningOfName(ret[1].instance.Name)
    /\ Cardinality(RunningOfName(ret[1].instance.Name)) = 2

\* The files among filenames that are loaded and define name.
Defining(filenames, name) ==
    {i \in DOMAIN filenames :
        filenames[i].kind = "spec" /\ name \in DOMAIN filenames[i].Apps}

\* The last of a non-empty set of positions.
Last(S) == CHOOSE i \in S : \A j \in S : j <= i

\* C18: the construction of the runner does not fail on its spec files; the
\* table it builds from the global, the user and the project file holds
\* exactly the names that a loaded file defines, each with the whole entry of
\* the last file that defines it; a file that is missing or does not load
\* adds nothing.
C18_LastFileWins ==
    \A p \in Invocations :
        (pc[p] = "done" /\ ret[p].op = "New")
           => LET filenames == ret[p].filenames
                  apps == ret[p].apps
              IN  /\ ret[p].err = Nil
                  /\ DOMAIN apps =
                        {name \in {"svc", "tool"} : Defining(filenames, name) # {}}
                  /\ \A name \in DOMAIN apps :
                        apps[name] =
                           filenames[Last(Defining(filenames, name))].Apps[name]

\* The runner is constructed where the global and the project file define svc
\* differently, the user file does not load and only the global file defines
\* tool: its table has the project entry of svc and the global entry of tool.
C18_Witness ==
    \E p \in Invocations :
        /\ pc[p] = "done" /\ ret[p].op = "New"
        /\ ret[p].filenames[2] = BrokenFile
        /\ Defining(ret[p].filenames, "svc") = {1, 3}
        /\ Defining(ret[p].filenames, "tool") = {1}
        /\ ret[p].filenames[1].Apps["svc"] # ret[p].filenames[3].Apps["svc"]
        /\ ret[p].apps["svc"] = ret[p].filenames[3].Apps["svc"]
        /\ ret[p].apps["tool"] = ret[p].filenames[1].Apps["tool"]

\* C19: Clean(id) and RemoveInstance(id) return no error and leave no
\* directory of id, nor any of its files, whether the process of the instance
\* is alive or not; they change no other directory and no process and send no
\* signal; with no directory of id they leave the store as it is.
C19_RemovalIdempotent ==
    [][\A p \in Invocations :
          ( /\ pc[p] = "idle" /\ pc'[p] = "done"
            /\ ret'[p].op \in {"Clean", "RemoveInstance"} )
             => LET id == ret'[p].id
                IN  /\ ret'[p].err = Nil
                    /\ dirs'[id] = NoDir
                    /\ \A i \in IDs \ {id} : dirs'[i] = dirs[i]
                    /\ procs' = procs /\ sent' = <<>> /\ launched' = NoCmd
                    /\ ~dirs[id].exists => dirs' = dirs
                    /\ Clean(dirs', id) = dirs'
                    /\ RemoveInstance(dirs', id) = dirs']_vars

\* RemoveInstance has returned, the directory of its ID is gone and the
\* record of another instance is in the store.
C19_Witness ==
    \E p \in Invocations :
        /\ pc[p] = "done" /\ ret[p].op = "RemoveInstance" /\ ret[p].err = Nil
        /\ dirs[ret[p].id] = NoDir
        /\ \E i \in IDs \ {ret[p].id} : UnmarshalOK(dirs[i].info)

\* The records of the sequence instances.
Range(instances) == {instances[k] : k \in DOMAIN instances}

\* C20: while every directory holds a record, GetInstancesByName(k) returns
\* exactly the stored records whose Name is the Name of the spec of k, or k
\* itself when k is not in the spec table, and GetRunningInstancesByName(k)
\* exactly those of them whose status is Running; and the instance a Start
\* called with the name k has returned is among the instances
\* GetInstancesByName(k) returns, as long as its directory is in the store.
C20_LookupFindsStarted ==
    AllDirsValid =>
        /\ \A k \in LookupNames :
              LET name == IF k \in DOMAIN Apps THEN Apps[k].Name ELSE k
              IN  /\ GetInstancesByName(k).err = Nil
                  /\ Range(GetInstancesByName(k).instances) =
                        {instance \in StoredInstances : instance.Name = name}
                  /\ GetRunningInstancesByName(k).err = Nil
                  /\ Range(GetRunningInstancesByName(k).instances) =
                        {instance \in StoredInstances :
                            /\ instance.Name = name
                            /\ GetStatus(instance).status = StatusRunning}
        /\ \A p \in Invocations :
              (StartSucceeded(p) /\ dirs[ret[p].instance.ID].exists)
                 => \E instance \in Range(GetInstancesByName(ret[p].call.name).instances) :
                       instance.ID = ret[p].instance.ID

\* The pids a Start has signalled once its step is taken.
StoppedAfter(p) == IF pc'[p] = "done" THEN ret'[p].stopped ELSE loc'[p].stopped

BrokenDirs == {i \in IDs : dirs[i].exists /\ ~UnmarshalOK(dirs[i].info)}

\* C22: an enumeration over an ID predicate and a record predicate, when no
\* directory that passes the ID predicate lacks a record that parses, returns
\* without error each record of a directory that passes the ID predicate and
\* whose record passes the record predicate, once, whatever the directories
\* that do not pass the ID predicate hold. GetInstance(id) returns the record
\* of id if its directory holds one, also while another directory holds none,
\* and no instance and no error when there is no directory of id. While every
\* directory holds a record, List(false) returns every record and List(true)
\* the records whose status is Running, without error. The calls change
\* nothing and send nothing.
C22_EnumerationFilters ==
    /\ [](\A idFilterFunc \in SUBSET IDs : \A instanceFilterFunc \in SUBSET Decodable :
            idFilterFunc \cap BrokenDirs = {}
               => LET r == loadInstances(idFilterFunc, instanceFilterFunc)
                  IN  /\ r.err = Nil
                      /\ Range(r.instances) =
                            {instance \in instanceFilterFunc :
                                instance.ID \in idFilterFunc}
                      /\ Len(r.instances) = Cardinality(Range(r.instances)))
    /\ [][\A p \in Invocations :
            /\ (pc[p] = "idle" /\ pc'[p] = "done" /\ ret'[p].op = "GetInstance")
                  => LET id == ret'[p].id
                     IN  /\ dirs' = dirs /\ procs' = procs
                         /\ sent' = <<>> /\ launched' = NoCmd
                         /\ UnmarshalOK(dirs[id].info)
                               => /\ ret'[p].err = Nil
                                  /\ ret'[p].instance = Unmarshal(dirs[id].info)
                                  /\ ret'[p].instance.ID = id
                         /\ ~dirs[id].exists
                               => /\ ret'[p].err = Nil
                                  /\ ret'[p].instance = NullInstance
            /\ ( /\ pc[p] = "idle" /\ pc'[p] = "done" /\ ret'[p].op = "List"
                 /\ AllDirsValid )
                  => /\ dirs' = dirs /\ procs' = procs
                     /\ sent' = <<>> /\ launched' = NoCmd
                     /\ ret'[p].err = Nil
                     /\ Len(ret'[p].instances) =
                           Cardinality(Range(ret'[p].instances))
                     /\ Range(ret'[p].instances) =
                           IF ret'[p].onlyRunning
                           THEN {instance \in StoredInstances :
                                    GetStatus(instance).status = StatusRunning}
                           ELSE StoredInstances]_vars

\* GetInstance has returned the record of its ID while the other directory
\* holds no record that parses.
C22_Witness ==
    \E p \in Invocations :
        /\ pc[p] = "done" /\ ret[p].op = "GetInstance" /\ ret[p].err = Nil
        /\ ret[p].instance # NullInstance
        /\ dirs[ret[p].id].info = Marshal(ret[p].instance)
        /\ BrokenDirs # {}

\* The id a Stop or a Restart that has returned r was called with.
IdOf(r) == IF r.op = "Restart" THEN r.restart.id ELSE r.id

\* C23: a Stop and a Restart with an id that names no directory return the
\* not-found error in their first step, which changes no directory and no
\* process, sends no signal and launches nothing; they go on, or return another
\* result, only with an id that names a directory.
C23_UnknownIdNoEffect ==
    [][\A p \in Invocations :
          /\ ( /\ pc[p] = "idle" /\ pc'[p] = "done"
               /\ ret'[p].op \in {"Stop", "Restart"} )
                => /\ dirs' = dirs /\ procs' = procs
                   /\ sent' = <<>> /\ launched' = NoCmd
                   /\ ~dirs[IdOf(ret'[p])].exists
                         => /\ ret'[p].err = ErrNotFound
                            /\ ret'[p].instance = NullInstance
                   /\ (ret'[p].err = ErrNotFound /\ AllDirsValid)
                         => ~dirs[IdOf(ret'[p])].exists
          /\ (pc[p] = "idle" /\ pc'[p] = "stopsignal")
                => dirs[loc'[p].id].exists
          /\ (pc[p] = "idle" /\ pc'[p] = "restartsignal")
                => dirs[loc'[p].restart.id].exists]_vars

\* Restart has returned the not-found error for an id that names no directory,
\* and the instance in the store, whose process is alive, is as it was.
C23_Witness ==
    \E p \in Invocations :
        /\ pc[p] = "done" /\ ret[p].op = "Restart" /\ ret[p].err = ErrNotFound
        /\ ~dirs[ret[p].restart.id].exists
        /\ \E instance \in StoredInstances : procs[instance.Pid] = "alive"

\* C24: the record a successful Restart returns has the Name, the Command and
\* the Options of the record it restarted.
C24_RestartPreservesParameters ==
    [][\A p \in Invocations :
          ( /\ pc[p] # "done" /\ pc'[p] = "done"
            /\ ret'[p].restart.on /\ ret'[p].err = Nil )
             => LET old == ret'[p].restart.instance
                    new == ret'[p].instance
                IN  /\ new.Name = old.Name
                    /\ new.Command = old.Command
                    /\ new.Options = old.Options]_vars

\* C25: when a Start returns, the process it launched, if it is alive, has a
\* record with its Pid in the store.
C25_NoProcessWithoutRecord ==
    [][\A p \in Invocations :
          ( /\ loc[p].op = "Start" /\ pc'[p] = "done"
            /\ loc[p].pid # NoPid /\ procs'[loc[p].pid] = "alive" )
             => \E instance \in StoredInstances' : instance.Pid = loc[p].pid]_vars

\* C26: two Starts in flight never hold the same ID.
C26_StartsHoldDifferentIDs ==
    \A p \in Invocations : \A q \in Invocations \ {p} :
        ( /\ loc[p].op = "Start" /\ loc[p].id # NoID
          /\ loc[q].op = "Start" /\ loc[q].id # NoID )
           => loc[p].id # loc[q].id

====
